---- MODULE Spec2Model ----
(***************************************************************************)
(* Age-of-money computation of ynab-go (cmd ynab-age-of-money): the        *)
(* budget-outflow classifier isOutflow, the bucket builder, the FIFO       *)
(* allocator over historical spending, the threshold report and the        *)
(* projection over scheduled transactions.                                 *)
(*                                                                         *)
(* The model follows the version of the command that sorts the spending    *)
(* and buffers its output in a tab writer; the earlier version of main.go  *)
(* classifies and allocates in the same way, without the sort of spending. *)
(*                                                                         *)
(* Also modelled: isBlackBox of ynab-largest-inputs-outputs, and the       *)
(* transfer helpers NewTransferTransaction and UpdateTransactionToTransfer *)
(* of package ynab.                                                        *)
(*                                                                         *)
(* Amounts are int64 milliunits; no arithmetic of the program leaves the   *)
(* range of the small amounts used here, so they are plain integers.       *)
(* Dates are whole days (ynab.Date carries no time of day), so             *)
(* round(hours/24) between two dates is their difference in days.          *)
(***************************************************************************)
EXTENDS Integers, Sequences, FiniteSets, TLC

(***************************************************************************)
(* Bounds of the model.                                                    *)
(***************************************************************************)
\* how many times the classifier is applied to one transaction record
MaxCalls == 2
\* how many transactions the fetched history holds at most
MaxTxns == 3
\* how many scheduled transactions the budget holds at most
MaxSched == 2

(***************************************************************************)
(* Accounts.                                                               *)
(***************************************************************************)
\* The accounts of the budget: every combination of on/off budget with a
\* cash-backed or a credit-like type, and each of the three cash-backed types.
Accounts ==
    { [ID |-> "checking", Type |-> "checking",       OnBudget |-> TRUE],
      [ID |-> "savings",  Type |-> "savings",        OnBudget |-> TRUE],
      [ID |-> "cash",     Type |-> "cash",           OnBudget |-> TRUE],
      [ID |-> "card",     Type |-> "creditCard",     OnBudget |-> TRUE],
      [ID |-> "credit",   Type |-> "lineOfCredit",   OnBudget |-> TRUE],
      [ID |-> "offcash",  Type |-> "checking",       OnBudget |-> FALSE],
      [ID |-> "tracking", Type |-> "otherAsset",     OnBudget |-> FALSE],
      [ID |-> "offcard",  Type |-> "creditCard",     OnBudget |-> FALSE] }

\* accountMap[account.ID] = account, for every account of the budget
accountMap == [id \in {a.ID : a \in Accounts} |-> CHOOSE a \in Accounts : a.ID = id]

\* an account id that no account of the budget has
UnknownID == "ghost"

\* func (a Account) CashBacked() bool
CashBacked(a) == a.Type = "cash" \/ a.Type = "savings" \/ a.Type = "checking"

\* types.NullString: TransferAccountID of a transaction
NullString(valid, s) == [Valid |-> valid, String |-> s]
NoTransfer == NullString(FALSE, "")
TransferTo(id) == NullString(TRUE, id)

\* a *ynab.Transaction, reduced to the fields the computation reads
Transaction(account, transfer, amt, date) ==
    [AccountID |-> account, TransferAccountID |-> transfer, Amount |-> amt, Date |-> date]

(***************************************************************************)
(* isOutflow(accountMap, tx, scheduled): the result is the returned bool,  *)
(* the transaction as the call leaves it (branch 3c negates tx.Amount in   *)
(* place), or a panic when an account id does not resolve.                 *)
(***************************************************************************)
OutflowResult(panic, ret, tx) == [panic |-> panic, ret |-> ret, tx |-> tx]

\* isOutflow with one of its slips: "noScheduled" leaves out the scheduled
\* clause of the cash-backed branch, "strict" tests tx.Amount > 0 in the last
\* branch, "noFlip" returns true there without negating tx.Amount,
\* "cashLeg" counts every negative amount of a cash-backed account
isOutflowWithSlip(m, tx, scheduled, slip) ==
    IF tx.AccountID \notin DOMAIN m
    THEN OutflowResult(TRUE, FALSE, tx)
    ELSE LET txnAccount == m[tx.AccountID] IN
    IF txnAccount.OnBudget = FALSE
    THEN OutflowResult(FALSE, FALSE, tx)
    ELSE IF tx.TransferAccountID.Valid /\ tx.TransferAccountID.String \notin DOMAIN m
    THEN OutflowResult(TRUE, FALSE, tx)
    ELSE LET hasTransfer == tx.TransferAccountID.Valid
             transferAccount == m[tx.TransferAccountID.String]
         IN
    IF CashBacked(txnAccount)
    THEN IF \/ ~hasTransfer
            \/ transferAccount.OnBudget = FALSE
            \/ (slip # "noScheduled" /\ scheduled /\ ~CashBacked(transferAccount))
            \/ slip = "cashLeg"
         THEN OutflowResult(FALSE, tx.Amount < 0, tx)
         ELSE OutflowResult(FALSE, FALSE, tx)
    ELSE IF ~hasTransfer
    THEN OutflowResult(FALSE, FALSE, tx)
    ELSE IF ~CashBacked(transferAccount)
    THEN OutflowResult(FALSE, FALSE, tx)
    ELSE IF (IF slip = "strict" THEN tx.Amount > 0 ELSE tx.Amount >= 0)
    THEN OutflowResult(FALSE, TRUE,
                       IF slip = "noFlip" THEN tx ELSE [tx EXCEPT !.Amount = -1 * tx.Amount])
    ELSE OutflowResult(FALSE, FALSE, tx)

isOutflowStrict(m, tx, scheduled) == isOutflowWithSlip(m, tx, scheduled, "strict")
isOutflowNoScheduled(m, tx, scheduled) == isOutflowWithSlip(m, tx, scheduled, "noScheduled")
isOutflowNoFlip(m, tx, scheduled) == isOutflowWithSlip(m, tx, scheduled, "noFlip")
isOutflowCashLeg(m, tx, scheduled) == isOutflowWithSlip(m, tx, scheduled, "cashLeg")

isOutflow(m, tx, scheduled) ==
    IF tx.AccountID \notin DOMAIN m
    THEN OutflowResult(TRUE, FALSE, tx)
    ELSE LET txnAccount == m[tx.AccountID] IN
    IF txnAccount.OnBudget = FALSE
    THEN OutflowResult(FALSE, FALSE, tx)
    ELSE IF tx.TransferAccountID.Valid /\ tx.TransferAccountID.String \notin DOMAIN m
    THEN OutflowResult(TRUE, FALSE, tx)
    ELSE LET hasTransfer == tx.TransferAccountID.Valid
             transferAccount == m[tx.TransferAccountID.String]
         IN
    IF CashBacked(txnAccount)
    THEN IF \/ ~hasTransfer
            \/ transferAccount.OnBudget = FALSE
            \/ (scheduled /\ ~CashBacked(transferAccount))
         THEN OutflowResult(FALSE, tx.Amount < 0, tx)
         ELSE OutflowResult(FALSE, FALSE, tx)
    ELSE IF ~hasTransfer
    THEN OutflowResult(FALSE, FALSE, tx)
    ELSE IF ~CashBacked(transferAccount)
    THEN OutflowResult(FALSE, FALSE, tx)
    ELSE IF tx.Amount >= 0
    THEN OutflowResult(FALSE, TRUE, [tx EXCEPT !.Amount = -1 * tx.Amount])
    ELSE OutflowResult(FALSE, FALSE, tx)

(***************************************************************************)
(* sort.Slice(s, less): the slice is left in some order without an         *)
(* inversion under less. sort.Slice is not stable, so elements that less   *)
(* does not order may end in any relative order.                           *)
(***************************************************************************)
Orderings(n) == {p \in [1..n -> 1..n] : \A a, b \in 1..n : a # b => p[a] # p[b]}

\* the comparison both sort.Slice calls of main use: date ascending, and on
\* equal dates the greater (signed) Amount first
less(dateI, amountI, dateJ, amountJ) ==
    IF dateI = dateJ THEN amountI > amountJ ELSE dateI < dateJ

\* sort.Slice(scheduledTxns, ...)
SortedScheduled(s) ==
    { [k \in 1..Len(s) |-> s[p[k]]] : p \in
        { q \in Orderings(Len(s)) :
            \A a, b \in 1..Len(s) :
                a < b => ~less(s[q[b]].DateNext, s[q[b]].Amount, s[q[a]].DateNext, s[q[a]].Amount) } }

\* sort.Slice(spending, ...): spending holds pointers into the heap h
SortedSpending(h, s) ==
    { [k \in 1..Len(s) |-> s[p[k]]] : p \in
        { q \in Orderings(Len(s)) :
            \A a, b \in 1..Len(s) :
                a < b => ~less(h[s[q[b]]].Date, h[s[q[b]]].Amount, h[s[q[a]]].Date, h[s[q[a]]].Amount) } }

(***************************************************************************)
(* The bucket builder loop of main: the transactions of on-budget,         *)
(* cash-backed accounts with Amount > 0 that are no transfer from an       *)
(* on-budget account, in the order of txns. h is the heap of transaction   *)
(* records, ts the slice of pointers, k the next position, acc the buckets *)
(* so far.                                                                 *)
(***************************************************************************)
\* the bucket loop without the test of the transfer account: every positive
\* amount of an on-budget cash account becomes a bucket
RECURSIVE BucketLoopAnyTransfer(_, _, _, _)
BucketLoopAnyTransfer(h, ts, k, acc) ==
    IF k > Len(ts) THEN [panic |-> FALSE, buckets |-> acc]
    ELSE LET tx == h[ts[k]] IN
    IF tx.AccountID \notin DOMAIN accountMap THEN [panic |-> TRUE, buckets |-> acc]
    ELSE LET txnAccount == accountMap[tx.AccountID] IN
    IF txnAccount.OnBudget = FALSE THEN BucketLoopAnyTransfer(h, ts, k + 1, acc)
    ELSE IF ~CashBacked(txnAccount) THEN BucketLoopAnyTransfer(h, ts, k + 1, acc)
    ELSE IF tx.Amount <= 0 THEN BucketLoopAnyTransfer(h, ts, k + 1, acc)
    ELSE BucketLoopAnyTransfer(h, ts, k + 1, Append(acc, ts[k]))

\* the bucket loop without the test of the amount
RECURSIVE BucketLoopAnyAmount(_, _, _, _)
BucketLoopAnyAmount(h, ts, k, acc) ==
    IF k > Len(ts) THEN [panic |-> FALSE, buckets |-> acc]
    ELSE LET tx == h[ts[k]] IN
    IF tx.AccountID \notin DOMAIN accountMap THEN [panic |-> TRUE, buckets |-> acc]
    ELSE LET txnAccount == accountMap[tx.AccountID] IN
    IF txnAccount.OnBudget = FALSE THEN BucketLoopAnyAmount(h, ts, k + 1, acc)
    ELSE IF ~CashBacked(txnAccount) THEN BucketLoopAnyAmount(h, ts, k + 1, acc)
    ELSE IF tx.TransferAccountID.Valid /\ tx.TransferAccountID.String \notin DOMAIN accountMap
    THEN [panic |-> TRUE, buckets |-> acc]
    ELSE IF tx.TransferAccountID.Valid /\ accountMap[tx.TransferAccountID.String].OnBudget = TRUE
    THEN BucketLoopAnyAmount(h, ts, k + 1, acc)
    ELSE BucketLoopAnyAmount(h, ts, k + 1, Append(acc, ts[k]))

RECURSIVE BucketLoop(_, _, _, _)
BucketLoop(h, ts, k, acc) ==
    IF k > Len(ts) THEN [panic |-> FALSE, buckets |-> acc]
    ELSE LET tx == h[ts[k]] IN
    IF tx.AccountID \notin DOMAIN accountMap THEN [panic |-> TRUE, buckets |-> acc]
    ELSE LET txnAccount == accountMap[tx.AccountID] IN
    IF txnAccount.OnBudget = FALSE THEN BucketLoop(h, ts, k + 1, acc)
    ELSE IF ~CashBacked(txnAccount) THEN BucketLoop(h, ts, k + 1, acc)
    ELSE IF tx.Amount <= 0 THEN BucketLoop(h, ts, k + 1, acc)
    ELSE IF tx.TransferAccountID.Valid /\ tx.TransferAccountID.String \notin DOMAIN accountMap
    THEN [panic |-> TRUE, buckets |-> acc]
    ELSE IF tx.TransferAccountID.Valid /\ accountMap[tx.TransferAccountID.String].OnBudget = TRUE
    THEN BucketLoop(h, ts, k + 1, acc)
    ELSE BucketLoop(h, ts, k + 1, Append(acc, ts[k]))

(***************************************************************************)
(* The spending filter loop of main: isOutflow(accountMap, tx, false) on   *)
(* every transaction in the order of txns; the call may negate tx.Amount   *)
(* in the heap.                                                            *)
(***************************************************************************)
RECURSIVE SpendingLoop(_, _, _, _)
SpendingLoop(h, ts, k, acc) ==
    IF k > Len(ts) THEN [panic |-> FALSE, heap |-> h, spending |-> acc]
    ELSE LET r == isOutflow(accountMap, h[ts[k]], FALSE) IN
    IF r.panic THEN [panic |-> TRUE, heap |-> h, spending |-> acc]
    ELSE SpendingLoop([h EXCEPT ![ts[k]] = r.tx], ts, k + 1,
                      IF r.ret THEN Append(acc, ts[k]) ELSE acc)

(***************************************************************************)
(* State.                                                                  *)
(***************************************************************************)
VARIABLES
    pc,                     \* position of main
    heap,                   \* the transaction records that txns, buckets and spending point to
    txns,                   \* []*ynab.Transaction: pointers into heap
    scheduledTxns,          \* []*ynab.ScheduledTransaction
    includeScheduledIncome, \* the -include-scheduled-income flag
    buckets,                \* []*ynab.Transaction: pointers into heap
    spending,               \* []*ynab.Transaction: pointers into heap
    currentBucketIdx,       \* index (from 0) of the bucket being spent from
    bucketSpend,            \* amount already spent from the current bucket
    i,                      \* index (from 0) of the running range loop
    amount,                 \* what is left to allocate of the current spending event
    txnIsh,                 \* the transaction built from the current scheduled transaction
    lastDrawn,              \* history: index of the bucket the last unit was taken from
    realized,               \* records written for historical spending
    thresholds,             \* records written for the upcoming thresholds
    projected,              \* records written for scheduled spending
    call    \* a transaction handed to isOutflow: the record as first given,
            \* the record as the calls so far left it, the scheduled flag and
            \* the result of every call so far

vars == <<pc, heap, txns, scheduledTxns, includeScheduledIncome, buckets, spending,
          currentBucketIdx, bucketSpend, i, amount, txnIsh, lastDrawn,
          realized, thresholds, projected, call>>

mainVars == <<pc, heap, txns, scheduledTxns, includeScheduledIncome, buckets, spending,
              currentBucketIdx, bucketSpend, i, amount, txnIsh, lastDrawn,
              realized, thresholds, projected>>

NoCall == [orig |-> <<>>, tx |-> <<>>, scheduled |-> FALSE, results |-> <<>>]
NoTxn == <<>>
NoBucket == 0 - 1

\* buckets[idx] and spending[idx] of the code, idx counted from 0
Bucket(idx) == heap[buckets[idx + 1]]
Spend(idx) == heap[spending[idx + 1]]

\* main before its first statement on the fetched data
MainAt(ts, sched, income) ==
    /\ pc = "start"
    /\ heap = ts
    /\ txns = [k \in 1..Len(ts) |-> k]
    /\ scheduledTxns = sched
    /\ includeScheduledIncome = income
    /\ buckets = <<>>
    /\ spending = <<>>
    /\ currentBucketIdx = 0
    /\ bucketSpend = 0
    /\ i = 0
    /\ amount = 0
    /\ txnIsh = NoTxn
    /\ lastDrawn = NoBucket
    /\ realized = <<>>
    /\ thresholds = <<>>
    /\ projected = <<>>
    /\ call = NoCall

(***************************************************************************)
(* main, statement by statement. A panic (an explicit panic or an index    *)
(* out of range) ends the run at pc = "panic", log.Fatal at pc = "fatal",  *)
(* a return from main at pc = "done".                                      *)
(***************************************************************************)

\* sort.Slice(scheduledTxns, ...)
SortScheduled ==
    /\ pc = "start"
    /\ scheduledTxns' \in SortedScheduled(scheduledTxns)
    /\ pc' = "buckets"
    /\ UNCHANGED <<heap, txns, includeScheduledIncome, buckets, spending, currentBucketIdx,
                   bucketSpend, i, amount, txnIsh, lastDrawn, realized, thresholds,
                   projected, call>>

\* buckets := ...; for i := range txns { ... buckets = append(buckets, tx) }
BuildBuckets ==
    /\ pc = "buckets"
    /\ LET r == BucketLoop(heap, txns, 1, <<>>) IN
        /\ buckets' = r.buckets
        /\ pc' = IF r.panic THEN "panic" ELSE "spending"
    /\ UNCHANGED <<heap, txns, scheduledTxns, includeScheduledIncome, spending,
                   currentBucketIdx, bucketSpend, i, amount, txnIsh, lastDrawn, realized,
                   thresholds, projected, call>>

\* spending := ...; for i := range txns { if isOutflow(accountMap, tx, false) { ... } }
FilterSpending ==
    /\ pc = "spending"
    /\ LET r == SpendingLoop(heap, txns, 1, <<>>) IN
        /\ heap' = r.heap
        /\ spending' = r.spending
        /\ pc' = IF r.panic THEN "panic" ELSE "sort"
    /\ UNCHANGED <<txns, scheduledTxns, includeScheduledIncome, buckets, currentBucketIdx,
                   bucketSpend, i, amount, txnIsh, lastDrawn, realized, thresholds,
                   projected, call>>

\* sort.Slice(spending, ...); if len(buckets) == 0 { log.Fatal(...) };
\* currentBucketIdx := 0; bucketSpend := int64(0)
SortSpending ==
    /\ pc = "sort"
    /\ spending' \in SortedSpending(heap, spending)
    /\ pc' = IF Len(buckets) = 0 THEN "fatal" ELSE "hist"
    /\ currentBucketIdx' = 0
    /\ bucketSpend' = 0
    /\ i' = 0
    /\ UNCHANGED <<heap, txns, scheduledTxns, includeScheduledIncome, buckets, amount,
                   txnIsh, lastDrawn, realized, thresholds, projected, call>>

\* for i := range spending { amount := -1 * spending[i].Amount; ... }: the head
\* of one iteration, up to the inner loop
HistNext ==
    /\ pc = "hist"
    /\ i < Len(spending)
    /\ LET a == -1 * Spend(i).Amount IN
        IF a = 0
        THEN /\ i' = i + 1
             /\ UNCHANGED <<pc, amount>>
        ELSE IF a < 0
        THEN /\ pc' = "panic"
             /\ UNCHANGED <<i, amount>>
        ELSE /\ pc' = "histLoop"
             /\ amount' = a
             /\ UNCHANGED i
    /\ UNCHANGED <<heap, txns, scheduledTxns, includeScheduledIncome, buckets, spending,
                   currentBucketIdx, bucketSpend, txnIsh, lastDrawn, realized, thresholds,
                   projected, call>>

\* HistConsume that keeps bucketSpend when it moves to the next bucket
HistConsumeNoReset(a, idx, bs) ==
    IF a < Bucket(idx).Amount - bs
    THEN [amount |-> 0, currentBucketIdx |-> idx, bucketSpend |-> bs + a]
    ELSE [amount |-> a - (Bucket(idx).Amount - bs), currentBucketIdx |-> idx + 1, bucketSpend |-> bs]

\* HistConsume that marks a used-up bucket as spent and stays on it
HistConsumeStuck(a, idx, bs) ==
    IF a < Bucket(idx).Amount - bs
    THEN [amount |-> 0, currentBucketIdx |-> idx, bucketSpend |-> bs + a]
    ELSE [amount |-> a - (Bucket(idx).Amount - bs), currentBucketIdx |-> idx,
          bucketSpend |-> Bucket(idx).Amount]

\* the body of: for amount > 0 { if amount < buckets[currentBucketIdx].Amount-bucketSpend {...} else {...} }
\* on the remaining amount a, the cursor idx and the spent part bs of its bucket
HistConsume(a, idx, bs) ==
    IF a < Bucket(idx).Amount - bs
    THEN [amount |-> 0, currentBucketIdx |-> idx, bucketSpend |-> bs + a]
    ELSE [amount |-> a - (Bucket(idx).Amount - bs), currentBucketIdx |-> idx + 1, bucketSpend |-> 0]

\* one iteration of the inner loop of the historical pass; buckets[currentBucketIdx]
\* past the end of buckets is an index out of range
HistStep ==
    /\ pc = "histLoop"
    /\ amount > 0
    /\ IF currentBucketIdx >= Len(buckets) \/ currentBucketIdx < 0
       THEN /\ pc' = "panic"
            /\ UNCHANGED <<amount, currentBucketIdx, bucketSpend, lastDrawn>>
       ELSE LET r == HistConsume(amount, currentBucketIdx, bucketSpend) IN
            /\ amount' = r.amount
            /\ currentBucketIdx' = r.currentBucketIdx
            /\ bucketSpend' = r.bucketSpend
            /\ lastDrawn' = IF r.amount < amount THEN currentBucketIdx ELSE lastDrawn
            /\ UNCHANGED pc
    /\ UNCHANGED <<heap, txns, scheduledTxns, includeScheduledIncome, buckets, spending, i,
                   txnIsh, realized, thresholds, projected, call>>

\* HistEmit that dates the money by either of the buckets the event ended on:
\* the one at the cursor or the one it last drew from
HistEmitEitherBucket ==
    /\ pc = "histLoop"
    /\ amount <= 0
    /\ \E b \in {currentBucketIdx, lastDrawn} :
        /\ b >= 0 /\ b < Len(buckets)
        /\ realized' = Append(realized,
                [ageOfMoney |-> Spend(i).Date - Bucket(b).Date,
                 earned |-> Bucket(b).Date,
                 spent |-> Spend(i).Date,
                 amount |-> -1 * Spend(i).Amount,
                 event |-> i,
                 bucket |-> b,
                 lastDrawn |-> lastDrawn])
    /\ i' = i + 1
    /\ pc' = "hist"
    /\ UNCHANGED <<heap, txns, scheduledTxns, includeScheduledIncome, buckets, spending,
                   currentBucketIdx, bucketSpend, amount, txnIsh, lastDrawn, thresholds,
                   projected, call>>

\* after the inner loop: ageHours := ...Sub(time.Time(buckets[currentBucketIdx].Date));
\* io.WriteString(tw, ...)
HistEmit ==
    /\ pc = "histLoop"
    /\ amount <= 0
    /\ IF currentBucketIdx >= Len(buckets) \/ currentBucketIdx < 0
       THEN /\ pc' = "panic"
            /\ UNCHANGED <<i, realized>>
       ELSE /\ realized' = Append(realized,
                [ageOfMoney |-> Spend(i).Date - Bucket(currentBucketIdx).Date,
                 earned |-> Bucket(currentBucketIdx).Date,
                 spent |-> Spend(i).Date,
                 amount |-> -1 * Spend(i).Amount,
                 event |-> i,
                 bucket |-> currentBucketIdx,
                 lastDrawn |-> lastDrawn])
            /\ i' = i + 1
            /\ pc' = "hist"
    /\ UNCHANGED <<heap, txns, scheduledTxns, includeScheduledIncome, buckets, spending,
                   currentBucketIdx, bucketSpend, amount, txnIsh, lastDrawn, thresholds,
                   projected, call>>

\* the limits of the threshold loop: i-currentBucketIdx < 25 && threshold <= 20000*1000
ThresholdBuckets == 25
ThresholdLimit == 20000000

\* the loop of the threshold report without the test of threshold against the limit
RECURSIVE ThresholdLoopNoLimit(_, _, _)
ThresholdLoopNoLimit(k, threshold, acc) ==
    IF ~(k - currentBucketIdx < ThresholdBuckets /\ k < Len(buckets))
    THEN acc
    ELSE LET t == IF k = currentBucketIdx
                  THEN threshold + (Bucket(k).Amount - bucketSpend)
                  ELSE threshold + Bucket(k).Amount
         IN ThresholdLoopNoLimit(k + 1, t, Append(acc, [bucket |-> k, date |-> Bucket(k).Date, threshold |-> t]))

\* for i := currentBucketIdx; (i-currentBucketIdx < 25 && threshold <= 20000*1000) && i < len(buckets); i++
\* (the age printed with each entry is taken from the wall clock and is left out)
RECURSIVE ThresholdLoop(_, _, _)
ThresholdLoop(k, threshold, acc) ==
    IF ~((k - currentBucketIdx < ThresholdBuckets /\ threshold <= ThresholdLimit) /\ k < Len(buckets))
    THEN acc
    ELSE LET t == IF k = currentBucketIdx
                  THEN threshold + (Bucket(k).Amount - bucketSpend)
                  ELSE threshold + Bucket(k).Amount
         IN ThresholdLoop(k + 1, t, Append(acc, [bucket |-> k, date |-> Bucket(k).Date, threshold |-> t]))

\* the threshold report looping on the cursor itself (for ; ...; currentBucketIdx++)
\* instead of a variable of its own
ThresholdMovingCursor ==
    /\ pc = "hist"
    /\ i >= Len(spending)
    /\ thresholds' = ThresholdLoop(currentBucketIdx, 0, <<>>)
    /\ currentBucketIdx' = currentBucketIdx + Len(thresholds')
    /\ pc' = IF Len(scheduledTxns) = 0 THEN "done" ELSE "proj"
    /\ i' = 0
    /\ UNCHANGED <<heap, txns, scheduledTxns, includeScheduledIncome, buckets, spending,
                   bucketSpend, amount, txnIsh, lastDrawn, realized, projected, call>>

\* the end of the range loop over spending, the threshold report, and
\* if len(scheduledTxns) == 0 { return }
Threshold ==
    /\ pc = "hist"
    /\ i >= Len(spending)
    /\ thresholds' = ThresholdLoop(currentBucketIdx, 0, <<>>)
    /\ pc' = IF Len(scheduledTxns) = 0 THEN "done" ELSE "proj"
    /\ i' = 0
    /\ UNCHANGED <<heap, txns, scheduledTxns, includeScheduledIncome, buckets, spending,
                   currentBucketIdx, bucketSpend, amount, txnIsh, lastDrawn, realized,
                   projected, call>>

\* txnIsh := &ynab.Transaction{...} of scheduledTxns[idx], idx counted from 0
TxnIshOf(idx) ==
    Transaction(scheduledTxns[idx + 1].AccountID, scheduledTxns[idx + 1].TransferAccountID,
                scheduledTxns[idx + 1].Amount, scheduledTxns[idx + 1].DateNext)

\* the branch of the projection loop taken when isOutflow returned false:
\* what to do with the transaction t. Its account resolves, isOutflow did not panic.
ScheduledIncome(t) ==
    LET txnAccount == accountMap[t.AccountID]
        transferAccount == accountMap[t.TransferAccountID.String]
    IN
    IF includeScheduledIncome = FALSE THEN [do |-> "continue", tx |-> t]
    ELSE IF t.TransferAccountID.Valid /\ t.TransferAccountID.String \notin DOMAIN accountMap
    THEN [do |-> "panic", tx |-> t]
    ELSE IF /\ t.TransferAccountID.Valid
            /\ ~CashBacked(txnAccount) /\ t.Amount < 0 /\ transferAccount.OnBudget
    THEN [do |-> "append", tx |-> [t EXCEPT !.Amount = t.Amount * (-1)]]
    ELSE IF /\ t.TransferAccountID.Valid
            /\ CashBacked(txnAccount) /\ transferAccount.OnBudget = TRUE
    THEN [do |-> "continue", tx |-> t]
    ELSE IF ~CashBacked(txnAccount)
    THEN [do |-> "continue", tx |-> t]
    ELSE [do |-> "append", tx |-> t]

\* ProjNext that adds scheduled income to the last bucket instead of appending
\* a bucket for it
ProjNextTopUp ==
    /\ pc = "proj"
    /\ i < Len(scheduledTxns)
    /\ LET r == isOutflow(accountMap, TxnIshOf(i), TRUE)
           inc == ScheduledIncome(r.tx)
           a == -1 * r.tx.Amount
       IN
        IF r.panic
        THEN /\ pc' = "panic"
             /\ UNCHANGED <<heap, buckets, i, amount, txnIsh>>
        ELSE IF ~r.ret
        THEN IF inc.do = "panic"
             THEN /\ pc' = "panic"
                  /\ UNCHANGED <<heap, buckets, i, amount, txnIsh>>
             ELSE IF inc.do = "append" /\ buckets = <<>>
             THEN /\ heap' = Append(heap, inc.tx)
                  /\ buckets' = Append(buckets, Len(heap) + 1)
                  /\ i' = i + 1
                  /\ UNCHANGED <<pc, amount, txnIsh>>
             ELSE IF inc.do = "append"
             THEN /\ heap' = [heap EXCEPT ![buckets[Len(buckets)]].Amount = @ + inc.tx.Amount]
                  /\ i' = i + 1
                  /\ UNCHANGED <<pc, buckets, amount, txnIsh>>
             ELSE /\ i' = i + 1
                  /\ UNCHANGED <<pc, heap, buckets, amount, txnIsh>>
        ELSE IF a = 0
        THEN /\ i' = i + 1
             /\ UNCHANGED <<pc, heap, buckets, amount, txnIsh>>
        ELSE IF a < 0
        THEN /\ pc' = "panic"
             /\ UNCHANGED <<heap, buckets, i, amount, txnIsh>>
        ELSE /\ pc' = "projLoop"
             /\ amount' = a
             /\ txnIsh' = r.tx
             /\ UNCHANGED <<heap, buckets, i>>
    /\ UNCHANGED <<txns, scheduledTxns, includeScheduledIncome, spending, currentBucketIdx,
                   bucketSpend, lastDrawn, realized, thresholds, projected, call>>

\* for i := range scheduledTxns { txnIsh := ...; if !isOutflow(accountMap, txnIsh, true) {...};
\* amount := -1 * txnIsh.Amount; ... }: the head of one iteration, up to the inner loop
ProjNext ==
    /\ pc = "proj"
    /\ i < Len(scheduledTxns)
    /\ LET r == isOutflow(accountMap, TxnIshOf(i), TRUE)
           inc == ScheduledIncome(r.tx)
           a == -1 * r.tx.Amount
       IN
        IF r.panic
        THEN /\ pc' = "panic"
             /\ UNCHANGED <<heap, buckets, i, amount, txnIsh>>
        ELSE IF ~r.ret
        THEN IF inc.do = "panic"
             THEN /\ pc' = "panic"
                  /\ UNCHANGED <<heap, buckets, i, amount, txnIsh>>
             ELSE IF inc.do = "append"
             THEN /\ heap' = Append(heap, inc.tx)
                  /\ buckets' = Append(buckets, Len(heap) + 1)
                  /\ i' = i + 1
                  /\ UNCHANGED <<pc, amount, txnIsh>>
             ELSE /\ i' = i + 1
                  /\ UNCHANGED <<pc, heap, buckets, amount, txnIsh>>
        ELSE IF a = 0
        THEN /\ i' = i + 1
             /\ UNCHANGED <<pc, heap, buckets, amount, txnIsh>>
        ELSE IF a < 0
        THEN /\ pc' = "panic"
             /\ UNCHANGED <<heap, buckets, i, amount, txnIsh>>
        ELSE /\ pc' = "projLoop"
             /\ amount' = a
             /\ txnIsh' = r.tx
             /\ UNCHANGED <<heap, buckets, i>>
    /\ UNCHANGED <<txns, scheduledTxns, includeScheduledIncome, spending, currentBucketIdx,
                   bucketSpend, lastDrawn, realized, thresholds, projected, call>>

\* ProjExhausted that is late by one bucket
ProjExhaustedLate(idx) == idx > Len(buckets)

\* if currentBucketIdx >= len(buckets) { break }, and the same test after the loop
ProjExhausted(idx) == idx >= Len(buckets)

\* ProjConsume that starts again at the first bucket when a bucket is used up
ProjConsumeRewind(a, idx, bs) ==
    IF a < Bucket(idx).Amount - bs
    THEN [amount |-> 0, currentBucketIdx |-> idx, bucketSpend |-> bs + a]
    ELSE [amount |-> 0, currentBucketIdx |-> 0, bucketSpend |-> 0]

\* the body of the inner loop of the projection after its break test
ProjConsume(a, idx, bs) ==
    IF a < Bucket(idx).Amount - bs
    THEN [amount |-> 0, currentBucketIdx |-> idx, bucketSpend |-> bs + a]
    ELSE [amount |-> a - (Bucket(idx).Amount - bs), currentBucketIdx |-> idx + 1, bucketSpend |-> 0]

\* one iteration of the inner loop of the projection that does not break
ProjStep ==
    /\ pc = "projLoop"
    /\ amount > 0
    /\ ~ProjExhausted(currentBucketIdx)
    /\ IF currentBucketIdx >= Len(buckets) \/ currentBucketIdx < 0
       THEN /\ pc' = "panic"
            /\ UNCHANGED <<amount, currentBucketIdx, bucketSpend, lastDrawn>>
       ELSE LET r == ProjConsume(amount, currentBucketIdx, bucketSpend) IN
            /\ amount' = r.amount
            /\ currentBucketIdx' = r.currentBucketIdx
            /\ bucketSpend' = r.bucketSpend
            /\ lastDrawn' = IF r.amount < amount THEN currentBucketIdx ELSE lastDrawn
            /\ UNCHANGED pc
    /\ UNCHANGED <<heap, txns, scheduledTxns, includeScheduledIncome, buckets, spending,
                   i, txnIsh, realized, thresholds, projected, call>>

\* the inner loop of the projection has ended (amount is 0, or the break on
\* currentBucketIdx >= len(buckets)): "N/A Not earned yet." and break, or the age
ProjEmit ==
    /\ pc = "projLoop"
    /\ (amount <= 0 \/ ProjExhausted(currentBucketIdx))
    /\ IF ProjExhausted(currentBucketIdx)
       THEN /\ projected' = Append(projected,
                [kind |-> "notEarned",
                 spendOn |-> scheduledTxns[i + 1].DateNext,
                 amount |-> -1 * txnIsh.Amount,
                 event |-> i])
            /\ pc' = "done"
            /\ UNCHANGED i
       ELSE IF currentBucketIdx >= Len(buckets) \/ currentBucketIdx < 0
       THEN /\ pc' = "panic"
            /\ UNCHANGED <<i, projected>>
       ELSE /\ projected' = Append(projected,
                [kind |-> "age",
                 ageOfMoney |-> scheduledTxns[i + 1].DateNext - Bucket(currentBucketIdx).Date,
                 earned |-> Bucket(currentBucketIdx).Date,
                 spendOn |-> scheduledTxns[i + 1].DateNext,
                 amount |-> -1 * txnIsh.Amount,
                 event |-> i,
                 bucket |-> currentBucketIdx,
                 lastDrawn |-> lastDrawn])
            /\ i' = i + 1
            /\ pc' = "proj"
    /\ txnIsh' = NoTxn
    /\ amount' = 0
    /\ UNCHANGED <<heap, txns, scheduledTxns, includeScheduledIncome, buckets, spending,
                   currentBucketIdx, bucketSpend, lastDrawn, realized, thresholds, call>>

\* the range loop over scheduledTxns has ended: tw.Flush(), and main returns
ProjDone ==
    /\ pc = "proj"
    /\ i >= Len(scheduledTxns)
    /\ pc' = "done"
    /\ UNCHANGED <<heap, txns, scheduledTxns, includeScheduledIncome, buckets, spending,
                   currentBucketIdx, bucketSpend, i, amount, txnIsh, lastDrawn, realized,
                   thresholds, projected, call>>

(***************************************************************************)
(* The inputs of main.                                                     *)
(***************************************************************************)
\* the sequences over S of length at most n
SeqUpTo(S, n) == UNION {[1..k -> S] : k \in 0..n}

Dates == 1..2

\* historical transactions: income and spending in a checking account, and
\* payments of a credit card from it (seen from the card)
HistPool ==
    { Transaction("checking", NoTransfer, a, d) : a \in {-3, -2, -1, 1, 2}, d \in Dates }
    \cup { Transaction("card", TransferTo("checking"), a, d) : a \in {0, 1}, d \in Dates }

\* the history alone: no scheduled transactions
InitHist ==
    \E ts \in SeqUpTo(HistPool, MaxTxns) : MainAt(ts, <<>>, FALSE)

NextHist ==
    \/ SortScheduled
    \/ BuildBuckets
    \/ FilterSpending
    \/ SortSpending
    \/ HistNext
    \/ HistStep
    \/ HistEmit
    \/ Threshold

SpecHist == InitHist /\ [][NextHist]_vars

\* a *ynab.ScheduledTransaction, reduced to the fields the computation reads
ScheduledTransaction(account, transfer, amt, dateNext) ==
    [AccountID |-> account, TransferAccountID |-> transfer, Amount |-> amt, DateNext |-> dateNext]

\* the histories the projection starts from: income only, income partly spent,
\* income spent to the last unit of a bucket, a payment of the credit card, a
\* spending event that takes from two buckets, and no transaction at all
Histories ==
    { <<>>,
      << Transaction("checking", NoTransfer, 2, 1) >>,
      << Transaction("checking", NoTransfer, 1, 1), Transaction("checking", NoTransfer, 2, 2) >>,
      << Transaction("checking", NoTransfer, 2, 1), Transaction("checking", NoTransfer, -1, 2) >>,
      << Transaction("checking", NoTransfer, 1, 1), Transaction("checking", NoTransfer, 2, 1),
         Transaction("checking", NoTransfer, -1, 2) >>,
      << Transaction("checking", NoTransfer, 2, 1), Transaction("card", TransferTo("checking"), 1, 2) >>,
      << Transaction("checking", NoTransfer, 1, 1), Transaction("checking", NoTransfer, 2, 1),
         Transaction("checking", NoTransfer, -2, 2) >> }

SchedDates == 3..4

\* scheduled transactions: spending and income in a checking account, a payment
\* to a credit card seen from either side, a transfer from a tracking account,
\* and a transaction of an off-budget cash account
SchedPool ==
    { ScheduledTransaction("checking", NoTransfer, a, d) : a \in {-2, -1, 0, 1}, d \in SchedDates }
    \cup { ScheduledTransaction("checking", TransferTo("card"), -1, 3),
           ScheduledTransaction("card", TransferTo("checking"), 1, 3),
           ScheduledTransaction("card", TransferTo("checking"), -1, 3),
           ScheduledTransaction("checking", TransferTo("tracking"), 1, 3),
           ScheduledTransaction("offcash", NoTransfer, -1, 3),
           ScheduledTransaction("tracking", TransferTo(UnknownID), 1, 3) }

Init ==
    \E ts \in Histories, sched \in SeqUpTo(SchedPool, MaxSched), income \in BOOLEAN :
        MainAt(ts, sched, income)

Next ==
    \/ NextHist
    \/ ProjNext
    \/ ProjStep
    \/ ProjEmit
    \/ ProjDone

Spec == Init /\ [][Next]_vars

\* main is one goroutine that runs until it returns, panics or calls log.Fatal:
\* a statement that can be executed is executed
SpecFair == Init /\ [][Next]_vars /\ WF_vars(Next)

(***************************************************************************)
(* A history with a transfer between two on-budget accounts: some income,  *)
(* then the two transactions YNAB records for the transfer, one in each    *)
(* account, with opposite amounts and each naming the other account.       *)
(***************************************************************************)
OnBudgetIDs == {id \in DOMAIN accountMap : accountMap[id].OnBudget}

PairAmounts == -2..2

InitPairs ==
    \E x \in OnBudgetIDs, y \in OnBudgetIDs, a \in PairAmounts :
        /\ x # y
        /\ MainAt(<< Transaction("checking", NoTransfer, 3, 1),
                     Transaction(x, TransferTo(y), a, 2),
                     Transaction(y, TransferTo(x), -1 * a, 2) >>,
                  <<>>, FALSE)

SpecPairs == InitPairs /\ [][NextHist]_vars

(***************************************************************************)
(* Histories for the bucket builder and the spending filter: transactions  *)
(* of an on-budget cash account, of a credit card and of an off-budget     *)
(* account, with no transfer, with a transfer to an on-budget account, to  *)
(* an off-budget account, or to an account that is not in the budget.      *)
(***************************************************************************)
MaxBuilt == 2

BuilderPool ==
    { Transaction(acct, tr, a, 1) :
        acct \in {"checking", "card", "offcash"},
        tr \in {NoTransfer, TransferTo("savings"), TransferTo("tracking"),
                TransferTo(UnknownID)},
        a \in {-1, 0, 1} }

InitBuilder ==
    \E ts \in SeqUpTo(BuilderPool, MaxBuilt) : MainAt(ts, <<>>, FALSE)

SpecBuilder == InitBuilder /\ [][NextHist]_vars

(***************************************************************************)
(* Histories for the threshold report: a number of incomes of one amount,  *)
(* up to more than the report lists and up to amounts that reach its       *)
(* limit, followed by a few spending transactions of one milliunit.        *)
(***************************************************************************)
MaxIncomes == 27
MaxSpends == 2

ReportAmounts == {1, 10000000, 20000000}

InitThreshold ==
    \E n \in 0..MaxIncomes, a \in ReportAmounts, k \in 0..MaxSpends :
        MainAt([j \in 1..(n + k) |->
                    IF j <= n THEN Transaction("checking", NoTransfer, a, 1)
                    ELSE Transaction("checking", NoTransfer, -1, 2)],
               <<>>, FALSE)

SpecThreshold == InitThreshold /\ [][NextHist]_vars

(***************************************************************************)
(* The classifier on its own: Init draws the transaction and the scheduled *)
(* flag, Classify applies isOutflow to the record.                         *)
(***************************************************************************)
ClassifyAmounts == {-30000, -1, 0, 1, 15000}

ClassifyTransfers == {NoTransfer} \cup {TransferTo(id) : id \in DOMAIN accountMap \cup {UnknownID}}

ClassifyInputs ==
    { Transaction(a, t, amt, 1) :
        a \in DOMAIN accountMap \cup {UnknownID}, t \in ClassifyTransfers, amt \in ClassifyAmounts }

InitClassify ==
    /\ \E tx \in ClassifyInputs, scheduled \in BOOLEAN :
        call = [orig |-> tx, tx |-> tx, scheduled |-> scheduled, results |-> <<>>]
    /\ pc = "idle"
    /\ heap = <<>>
    /\ txns = <<>>
    /\ scheduledTxns = <<>>
    /\ includeScheduledIncome = FALSE
    /\ buckets = <<>>
    /\ spending = <<>>
    /\ currentBucketIdx = 0
    /\ bucketSpend = 0
    /\ i = 0
    /\ amount = 0
    /\ txnIsh = NoTxn
    /\ lastDrawn = NoBucket
    /\ realized = <<>>
    /\ thresholds = <<>>
    /\ projected = <<>>

Classify ==
    /\ pc = "idle"
    /\ Len(call.results) < MaxCalls
    /\ \A k \in DOMAIN call.results : ~call.results[k].panic
    /\ LET r == isOutflow(accountMap, call.tx, call.scheduled) IN
       call' = [call EXCEPT !.tx = r.tx, !.results = Append(@, r)]
    /\ UNCHANGED mainVars

NextClassify == Classify

SpecClassify == InitClassify /\ [][NextClassify]_vars

(***************************************************************************)
(* isBlackBox(accountMap, tx) of ynab-largest-inputs-outputs: whether the  *)
(* transaction moves money into or out of the budget seen as a black box.  *)
(* The call does not change tx. Init draws the transaction, and            *)
(* ClassifyBlackBox applies isBlackBox to it.                              *)
(***************************************************************************)
\* the earlier isBlackBox: a transfer from a cash-backed account to a
\* creditCard or otherLiability account counts, whatever its amount
isBlackBoxAnyAmount(m, tx) ==
    IF tx.AccountID \notin DOMAIN m THEN [panic |-> TRUE, ret |-> FALSE, tx |-> tx]
    ELSE IF tx.TransferAccountID.Valid /\ tx.TransferAccountID.String \notin DOMAIN m
    THEN [panic |-> TRUE, ret |-> FALSE, tx |-> tx]
    ELSE
    LET txnAccount == m[tx.AccountID]
        hasTransfer == tx.TransferAccountID.Valid
        transferAccount == m[tx.TransferAccountID.String]
    IN
    IF CashBacked(txnAccount)
    THEN IF ~hasTransfer THEN [panic |-> FALSE, ret |-> TRUE, tx |-> tx]
         ELSE IF transferAccount.Type = "creditCard" \/ transferAccount.Type = "otherLiability"
         THEN [panic |-> FALSE, ret |-> TRUE, tx |-> tx]
         ELSE [panic |-> FALSE, ret |-> FALSE, tx |-> tx]
    ELSE IF hasTransfer THEN [panic |-> FALSE, ret |-> FALSE, tx |-> tx]
    ELSE IF txnAccount.OnBudget /\ ~CashBacked(txnAccount) /\ tx.Amount < 0
    THEN [panic |-> FALSE, ret |-> FALSE, tx |-> tx]
    ELSE [panic |-> FALSE, ret |-> TRUE, tx |-> tx]

isBlackBox(m, tx) ==
    IF tx.AccountID \notin DOMAIN m THEN [panic |-> TRUE, ret |-> FALSE, tx |-> tx]
    ELSE IF tx.TransferAccountID.Valid /\ tx.TransferAccountID.String \notin DOMAIN m
    THEN [panic |-> TRUE, ret |-> FALSE, tx |-> tx]
    ELSE
    LET txnAccount == m[tx.AccountID]
        hasTransfer == tx.TransferAccountID.Valid
        transferAccount == m[tx.TransferAccountID.String]
    IN
    IF CashBacked(txnAccount)
    THEN IF ~hasTransfer THEN [panic |-> FALSE, ret |-> TRUE, tx |-> tx]
         ELSE IF transferAccount.Type = "creditCard" /\ tx.Amount < 0
         THEN [panic |-> FALSE, ret |-> TRUE, tx |-> tx]
         ELSE [panic |-> FALSE, ret |-> FALSE, tx |-> tx]
    ELSE IF hasTransfer THEN [panic |-> FALSE, ret |-> FALSE, tx |-> tx]
    ELSE IF txnAccount.OnBudget /\ ~CashBacked(txnAccount) /\ tx.Amount < 0
    THEN [panic |-> FALSE, ret |-> FALSE, tx |-> tx]
    ELSE [panic |-> FALSE, ret |-> TRUE, tx |-> tx]

InitBlackBox ==
    /\ \E tx \in ClassifyInputs :
        call = [orig |-> tx, tx |-> tx, scheduled |-> FALSE, results |-> <<>>]
    /\ pc = "blackbox"
    /\ heap = <<>>
    /\ txns = <<>>
    /\ scheduledTxns = <<>>
    /\ includeScheduledIncome = FALSE
    /\ buckets = <<>>
    /\ spending = <<>>
    /\ currentBucketIdx = 0
    /\ bucketSpend = 0
    /\ i = 0
    /\ amount = 0
    /\ txnIsh = NoTxn
    /\ lastDrawn = NoBucket
    /\ realized = <<>>
    /\ thresholds = <<>>
    /\ projected = <<>>

ClassifyBlackBox ==
    /\ pc = "blackbox"
    /\ Len(call.results) < MaxCalls
    /\ \A k \in DOMAIN call.results : ~call.results[k].panic
    /\ LET r == isBlackBox(accountMap, call.tx) IN
       call' = [call EXCEPT !.tx = r.tx, !.results = Append(@, r)]
    /\ UNCHANGED mainVars

NextBlackBox == ClassifyBlackBox

SpecBlackBox == InitBlackBox /\ [][NextBlackBox]_vars

(***************************************************************************)
(* NewTransferTransaction and UpdateTransactionToTransfer of package ynab. *)
(* A Go pointer result that may be nil, and the error, are sequences of at *)
(* most one element. Init draws the arguments of one call, the action      *)
(* NewTransfer or UpdateToTransfer makes the call.                         *)
(***************************************************************************)
Nil == <<>>
Ptr(v) == <<v>>

\* &Error{Message: msg}
Error(msg) == [Message |-> msg]

\* NewTransferTransaction without the test of the target's TransferPayeeID
NewTransferTransactionUnchecked(sourceAccountID, targetAccount, amt, date) ==
    [txn |-> Ptr([AccountID |-> sourceAccountID,
                  Date |-> date,
                  Amount |-> amt,
                  PayeeID |-> targetAccount.TransferPayeeID,
                  Approved |-> FALSE]),
     err |-> Nil]

NewTransferTransaction(sourceAccountID, targetAccount, amt, date) ==
    IF ~targetAccount.TransferPayeeID.Valid
    THEN [txn |-> Nil,
          err |-> Ptr(Error("target account does not have a valid transfer_payee_id"))]
    ELSE [txn |-> Ptr([AccountID |-> sourceAccountID,
                       Date |-> date,
                       Amount |-> amt,
                       PayeeID |-> targetAccount.TransferPayeeID,
                       Approved |-> FALSE]),
          err |-> Nil]

\* the UpdateTransaction has no AccountID (a nil *string); Amount and Approved
\* point to the fields of existingTxn and are given by their values
UpdateTransactionToTransfer(existingTxn, targetAccount) ==
    IF ~targetAccount.TransferPayeeID.Valid
    THEN [txn |-> Nil,
          err |-> Ptr(Error("target account does not have a valid transfer_payee_id"))]
    ELSE [txn |-> Ptr([AccountID |-> Nil,
                       Date |-> existingTxn.Date,
                       Amount |-> Ptr(existingTxn.Amount),
                       PayeeID |-> targetAccount.TransferPayeeID,
                       Memo |-> NullString(existingTxn.Memo # "", existingTxn.Memo),
                       Cleared |-> NullString(existingTxn.Cleared # "", existingTxn.Cleared),
                       Approved |-> Ptr(existingTxn.Approved)]),
          err |-> Nil]

\* target accounts: without transfer payee, with one, and with a valid but empty one
TargetAccounts ==
    { [ID |-> "savings", TransferPayeeID |-> p] :
        p \in {NullString(FALSE, ""), NullString(TRUE, "transfer-payee-789"), NullString(TRUE, "")} }

TransferAmounts == {-50000, 0, 50000}

ExistingTxns ==
    { [ID |-> "existing-txn-123", AccountID |-> a, Date |-> d, Amount |-> amt,
       Memo |-> m, Cleared |-> c, Approved |-> ap] :
        a \in {"checking", "card"}, d \in Dates, amt \in TransferAmounts,
        m \in {"", "ATM withdrawal"}, c \in {"", "cleared"}, ap \in BOOLEAN }

InitTransfer ==
    /\ \/ \E src \in {"checking", "card"}, t \in TargetAccounts, amt \in TransferAmounts, d \in Dates :
            call = [op |-> "new", sourceAccountID |-> src, targetAccount |-> t,
                    amount |-> amt, date |-> d, results |-> <<>>]
       \/ \E e \in ExistingTxns, t \in TargetAccounts :
            call = [op |-> "update", existingTxn |-> e, targetAccount |-> t, results |-> <<>>]
    /\ pc = "transfer"
    /\ heap = <<>>
    /\ txns = <<>>
    /\ scheduledTxns = <<>>
    /\ includeScheduledIncome = FALSE
    /\ buckets = <<>>
    /\ spending = <<>>
    /\ currentBucketIdx = 0
    /\ bucketSpend = 0
    /\ i = 0
    /\ amount = 0
    /\ txnIsh = NoTxn
    /\ lastDrawn = NoBucket
    /\ realized = <<>>
    /\ thresholds = <<>>
    /\ projected = <<>>

NewTransfer ==
    /\ pc = "transfer"
    /\ call.op = "new"
    /\ call.results = <<>>
    /\ call' = [call EXCEPT !.results =
                    <<NewTransferTransaction(call.sourceAccountID, call.targetAccount,
                                             call.amount, call.date)>>]
    /\ UNCHANGED mainVars

UpdateToTransfer ==
    /\ pc = "transfer"
    /\ call.op = "update"
    /\ call.results = <<>>
    /\ call' = [call EXCEPT !.results =
                    <<UpdateTransactionToTransfer(call.existingTxn, call.targetAccount)>>]
    /\ UNCHANGED mainVars

NextTransfer == NewTransfer \/ UpdateToTransfer

SpecTransfer == InitTransfer /\ [][NextTransfer]_vars

(***************************************************************************)
(* Properties.                                                             *)
(***************************************************************************)
\* the sum of the amounts of the first k buckets
RECURSIVE BucketSum(_)
BucketSum(k) == IF k <= 0 THEN 0 ELSE BucketSum(k - 1) + Bucket(k - 1).Amount

\* the sum of the sign-normalised amounts of the first k spending events
RECURSIVE SpentSum(_)
SpentSum(k) == IF k <= 0 THEN 0 ELSE SpentSum(k - 1) + (-1 * Spend(k - 1).Amount)

TotalBuckets == BucketSum(Len(buckets))
TotalSpent == SpentSum(Len(spending))

\* what the cursor says has been consumed
Consumed == BucketSum(currentBucketIdx) + bucketSpend

\* the historical pass has its inputs: buckets built, spending filtered and sorted
InHistoricalPass == pc \in {"hist", "histLoop", "panic", "done"}

\* C1: conservation of consumed money in the historical pass. After every
\* spending event processed without abort, and when the run has completed, the
\* amounts of the buckets before currentBucketIdx plus bucketSpend equal the
\* sign-normalised amounts of the spending events processed so far, and that
\* total does not exceed the total bucket amount.
C1_Conservation ==
    /\ pc = "hist" => Consumed = SpentSum(i) /\ Consumed <= TotalBuckets
    /\ pc = "histLoop" => Consumed = SpentSum(i + 1) - amount
    /\ pc = "done" => Consumed = TotalSpent /\ Consumed <= TotalBuckets

\* a completed run whose spending used up one bucket and part of the next
C1_Witness ==
    /\ pc = "done"
    /\ realized # <<>>
    /\ currentBucketIdx >= 1
    /\ bucketSpend >= 1

\* C2: for every realized-spend record, the earned date is the date of the
\* bucket from which the last unit of that spend was drawn.
C2_EarnedDateOfLastUnit ==
    \A k \in DOMAIN realized : realized[k].earned = Bucket(realized[k].lastDrawn).Date

\* the first spending event (counted from 0) that the buckets cannot fully cover
FirstUncovered ==
    CHOOSE k \in 0..(Len(spending) - 1) :
        /\ SpentSum(k + 1) > TotalBuckets
        /\ \A j \in 0..(k - 1) : SpentSum(j + 1) <= TotalBuckets

\* C3: if the historical spending exceeds the total of the buckets, the pass
\* aborts at the first spending event that cannot be fully covered, no record is
\* written for that event, and threshold and projection are never reached.
C3_AbortAtFirstUncovered ==
    (InHistoricalPass /\ TotalSpent > TotalBuckets) =>
        /\ pc # "done"
        /\ thresholds = <<>>
        /\ \A k \in DOMAIN realized : realized[k].event < FirstUncovered
        /\ pc = "panic" => i = FirstUncovered

\* C4: with at least one bucket and total spending at most the total of the
\* buckets, the historical pass does not abort, and a completed run has one
\* record for every spending event of non-zero amount.
C4_NoAbortWhenCovered ==
    (InHistoricalPass /\ Len(buckets) >= 1 /\ TotalSpent <= TotalBuckets) =>
        /\ pc # "panic"
        /\ pc = "done" =>
            \A e \in 0..(Len(spending) - 1) :
                Spend(e).Amount # 0 =>
                    Cardinality({k \in DOMAIN realized : realized[k].event = e}) = 1

\* C5: the cursor never rewinds: in every step of the historical pass and of
\* the projection, currentBucketIdx stays or grows by one.
C5_CursorMonotone ==
    [][currentBucketIdx' = currentBucketIdx \/ currentBucketIdx' = currentBucketIdx + 1]_vars

\* the cursor has advanced in the historical pass and again in the projection
C5_Witness ==
    /\ pc = "done"
    /\ realized # <<>>
    /\ projected # <<>>
    /\ realized[Len(realized)].bucket >= 1
    /\ currentBucketIdx > realized[Len(realized)].bucket

Abs(n) == IF n < 0 THEN -n ELSE n

\* C6: in the projection, a scheduled outflow that finds the buckets used up
\* does not abort: the step that follows writes a "not earned yet" record with
\* the amount and the projected date and without an age, and no step of the
\* consumption loop panics.
C6_NotEarnedYet ==
    [][pc = "projLoop" =>
        /\ pc' # "panic"
        /\ currentBucketIdx >= Len(buckets) =>
            /\ pc' = "done"
            /\ projected' = Append(projected,
                    [kind |-> "notEarned",
                     spendOn |-> scheduledTxns[i + 1].DateNext,
                     amount |-> Abs(scheduledTxns[i + 1].Amount),
                     event |-> i])]_vars

\* one bucket with 1 left of it, and a scheduled outflow of 2
C6_Witness ==
    /\ pc = "done"
    /\ Len(buckets) = 1
    /\ realized # <<>>
    /\ projected # <<>>
    /\ projected[Len(projected)].kind = "notEarned"
    /\ projected[Len(projected)].amount = 2

\* the scheduled transactions (counted from 0) that isOutflow, called with
\* scheduled = true, takes for an outflow of non-zero amount
ScheduledOutflows ==
    { k \in 0..(Len(scheduledTxns) - 1) :
        /\ isOutflow(accountMap, TxnIshOf(k), TRUE).ret
        /\ scheduledTxns[k + 1].Amount # 0 }

\* C7: every scheduled transaction classified as an outflow of non-zero amount
\* yields exactly one projected-spend record, in the sorted order, whatever the
\* results of the earlier scheduled transactions.
C7_EveryOutflowProjected ==
    pc = "done" =>
        /\ \A e \in ScheduledOutflows :
            Cardinality({k \in DOMAIN projected : projected[k].event = e}) = 1
        /\ \A k \in DOMAIN projected : projected[k].event \in ScheduledOutflows
        /\ \A j, k \in DOMAIN projected : j < k => projected[j].event < projected[k].event

\* Policy A, rules 1 to 3d, on the account a of a transaction, its transfer
\* target t (used only when hasTransfer), the scheduled flag and the amount
PolicyA(a, hasTransfer, t, scheduled, amt) ==
    IF ~a.OnBudget THEN FALSE
    ELSE IF CashBacked(a)
    THEN IF ~hasTransfer \/ ~t.OnBudget \/ (scheduled /\ ~CashBacked(t))
         THEN amt < 0
         ELSE FALSE
    ELSE hasTransfer /\ CashBacked(t) /\ amt >= 0

\* the account ids of the transaction first handed to isOutflow resolve
CallResolves ==
    /\ call.orig.AccountID \in DOMAIN accountMap
    /\ call.orig.TransferAccountID.Valid =>
        call.orig.TransferAccountID.String \in DOMAIN accountMap

CallAccount == accountMap[call.orig.AccountID]
CallTarget == accountMap[call.orig.TransferAccountID.String]

\* C8: isOutflow implements Policy A exactly and totally: whenever the account
\* ids resolve, the first call on a transaction does not panic and returns the
\* outcome of rules 1 to 3d.
C8_PolicyA ==
    (Len(call.results) >= 1 /\ CallResolves) =>
        /\ ~call.results[1].panic
        /\ call.results[1].ret =
             PolicyA(CallAccount, call.orig.TransferAccountID.Valid,
                     IF call.orig.TransferAccountID.Valid THEN CallTarget ELSE CallAccount,
                     call.scheduled, call.orig.Amount)

\* a credit-like account paid from a cash-backed one with amount 0: rule 3c
C8_Witness ==
    /\ Len(call.results) >= 1
    /\ call.orig.AccountID = "credit"
    /\ call.orig.TransferAccountID = TransferTo("savings")
    /\ call.orig.Amount = 0
    /\ call.results[1].ret

\* a transfer of -30000 from an on-budget cash-backed account to a creditCard account
CashToCard ==
    /\ Len(call.results) >= 1
    /\ CallResolves
    /\ CallAccount.OnBudget
    /\ CashBacked(CallAccount)
    /\ call.orig.TransferAccountID.Valid
    /\ CallTarget.Type = "creditCard"
    /\ call.orig.Amount = -30000

\* C9 as stated: a transfer of -30000 from a cash account to a creditCard
\* account is an outflow under Policy A.
C9_CashToCardIsOutflow == CashToCard => call.results[1].ret

\* C9 as amended: it is an outflow when scheduled is true, and when scheduled
\* is false only if the creditCard account is off budget.
C9_CashToCardScheduled ==
    CashToCard => (call.results[1].ret = (call.scheduled \/ ~CallTarget.OnBudget))

\* a scheduled transfer from checking to the on-budget card came out an outflow
C9_Witness ==
    /\ CashToCard
    /\ call.scheduled
    /\ CallTarget.OnBudget
    /\ call.results[1].ret

\* a transaction of an on-budget account that is not cash-backed, with a
\* cash-backed transfer target and amount >= 0
Settlement ==
    /\ Len(call.results) >= 1
    /\ CallResolves
    /\ CallAccount.OnBudget
    /\ ~CashBacked(CallAccount)
    /\ call.orig.TransferAccountID.Valid
    /\ CashBacked(CallTarget)
    /\ call.orig.Amount >= 0

\* C10: branch 3c. For such a transaction isOutflow returns true and leaves
\* the transaction with the negation of its amount.
C10_SettlementFlip ==
    Settlement =>
        /\ call.results[1].ret
        /\ call.results[1].tx.Amount = -1 * call.orig.Amount
        /\ call.results[1].tx.Amount <= 0

\* +15000 in a creditCard account, transferred from checking, became -15000
C10_Witness ==
    /\ Settlement
    /\ CallAccount.Type = "creditCard"
    /\ CallTarget.Type = "checking"
    /\ call.orig.Amount = 15000
    /\ call.results[1].tx.Amount = -15000

\* the legs of the transfer of SpecPairs, as first recorded, are txns[1] and txns[2]
\* (heap[2] and heap[3]); the number of them that the filter put in spending
LegsInSpending == Cardinality({k \in DOMAIN spending : spending[k] \in {2, 3}})

\* C11: no double counting of transfers in history. Of the two transactions of
\* a transfer between two on-budget accounts at most one is classified as an
\* outflow, no classification panics, and when the transfer pays a credit-like
\* account from a cash-backed one, the credit leg is the outflow and the cash
\* leg is not.
C11_NoDoubleCounting ==
    /\ pc \in {"sort", "hist", "histLoop", "done"} =>
        /\ LegsInSpending <= 1
        /\ \A c \in {2, 3} :
            LET o == 5 - c IN
            (/\ CashBacked(accountMap[heap[c].AccountID])
             /\ ~CashBacked(accountMap[heap[o].AccountID])
             /\ heap[c].Amount < 0) =>
                /\ \A k \in DOMAIN spending : spending[k] # c
                /\ \E k \in DOMAIN spending : spending[k] = o
    /\ pc # "panic"

\* a payment of 2 from checking to the card, filtered and allocated: the card
\* leg was aged and the checking leg was not
C11_Witness ==
    /\ pc = "done"
    /\ heap[2].AccountID = "checking"
    /\ heap[2].Amount = -2
    /\ heap[3].AccountID = "card"
    /\ spending = <<3>>
    /\ Len(realized) = 1

\* what the specification of the bucket builder selects
IsIncome(tx) ==
    /\ tx.AccountID \in DOMAIN accountMap
    /\ accountMap[tx.AccountID].OnBudget
    /\ accountMap[tx.AccountID].Type \in {"checking", "savings", "cash"}
    /\ tx.Amount > 0
    /\ \/ ~tx.TransferAccountID.Valid
       \/ /\ tx.TransferAccountID.String \in DOMAIN accountMap
          /\ ~accountMap[tx.TransferAccountID.String].OnBudget

\* the position in txns of the transaction that p points to
Pos(p) == CHOOSE k \in DOMAIN txns : txns[k] = p

\* C12: when the bucket builder has run, a transaction of the history is in
\* buckets if and only if its account is on-budget and cash-backed, its amount
\* is > 0 and it has no transfer or a transfer to an off-budget account; the
\* buckets are in the order of the history.
C12_BucketBuilder ==
    pc = "spending" =>
        /\ \A k \in DOMAIN txns :
            (\E b \in DOMAIN buckets : buckets[b] = txns[k]) <=> IsIncome(heap[txns[k]])
        /\ \A b \in DOMAIN buckets : \E k \in DOMAIN txns : txns[k] = buckets[b]
        /\ \A a \in DOMAIN buckets : \A b \in DOMAIN buckets :
            a < b => Pos(buckets[a]) < Pos(buckets[b])

\* the builder passed over money moved in from savings and kept money that
\* came in from the off-budget tracking account
C12_Witness ==
    /\ pc = "spending"
    /\ Len(txns) = 2
    /\ heap[1] = Transaction("checking", TransferTo("savings"), 1, 1)
    /\ heap[2] = Transaction("checking", TransferTo("tracking"), 1, 1)
    /\ buckets = <<2>>

\* C13: every bucket has an amount > 0, those built from the history and those
\* appended by the projection from scheduled income.
C13_BucketsPositive ==
    \A b \in DOMAIN buckets : heap[buckets[b]].Amount > 0

\* C14: every transaction in the spending sequence has a strictly positive
\* amount after sign normalisation: -tx.Amount > 0 once isOutflow has returned
\* true for it.
C14_SpendingPositive ==
    \A k \in DOMAIN spending : -1 * heap[spending[k]].Amount > 0

\* the spending sequence has been sorted
SpendingSorted == pc \in {"hist", "histLoop", "done", "proj", "projLoop"}

\* C15: before allocation the spending events are in ascending order of date,
\* and of two events of the same date the one that spends more (the larger
\* sign-normalised amount) comes first.
C15_LargerOutflowFirst ==
    SpendingSorted =>
        \A a \in DOMAIN spending : \A b \in DOMAIN spending :
            a < b =>
                /\ Spend(a - 1).Date <= Spend(b - 1).Date
                /\ Spend(a - 1).Date = Spend(b - 1).Date =>
                        -1 * Spend(a - 1).Amount >= -1 * Spend(b - 1).Amount

\* C16: the projection continues the cursor of the historical pass. The step
\* from the historical loop through the threshold report into the projection
\* leaves (currentBucketIdx, bucketSpend) unchanged, and so does every step of
\* the projection but the inner allocation loop: taking the next scheduled
\* transaction and emitting a record never reset or move the cursor.
C16_CursorCarriedOver ==
    [][ (\/ pc = "hist" /\ pc' \in {"proj", "done"}
         \/ pc = "proj"
         \/ pc = "projLoop" /\ pc' # "projLoop")
        => /\ currentBucketIdx' = currentBucketIdx
           /\ bucketSpend' = bucketSpend ]_vars

\* history spent one bucket of 1, the report listed what is left, and the
\* projection then took 1 from the second bucket, where history had stopped
C16_Witness ==
    /\ pc \in {"proj", "done"}
    /\ Len(realized) = 1
    /\ realized[1].bucket = 1
    /\ Len(thresholds) = 1
    /\ thresholds[1].bucket = 1
    /\ Len(projected) = 1
    /\ projected[1].kind = "age"
    /\ projected[1].bucket = 1
    /\ currentBucketIdx = 1
    /\ bucketSpend = 1

\* an on-budget cash-backed account, by its identifier
IsBudgetCash(id) ==
    /\ id \in DOMAIN accountMap
    /\ accountMap[id].OnBudget
    /\ accountMap[id].Type \in {"checking", "savings", "cash"}

\* an off-budget account, by its identifier
IsOffBudget(id) == id \in DOMAIN accountMap /\ ~accountMap[id].OnBudget

\* scheduled income as the specification has it: money that an off-budget
\* account transfers into an on-budget cash-backed account (seen from either
\* account), or a credit without transfer in an on-budget cash-backed account
IsScheduledIncome(t) ==
    IF t.TransferAccountID.Valid
    THEN \/ /\ IsBudgetCash(t.AccountID)
            /\ IsOffBudget(t.TransferAccountID.String)
            /\ t.Amount > 0
         \/ /\ IsOffBudget(t.AccountID)
            /\ IsBudgetCash(t.TransferAccountID.String)
            /\ t.Amount < 0
    ELSE IsBudgetCash(t.AccountID) /\ t.Amount > 0

\* C17: a step of the projection that takes the next scheduled transaction
\* appends a bucket if and only if scheduled income is enabled and the
\* transaction is scheduled income; otherwise buckets is left unchanged.
C17_ScheduledIncome ==
    [][ (pc = "proj" /\ i < Len(scheduledTxns) /\ pc' # "panic")
        => IF includeScheduledIncome /\ IsScheduledIncome(TxnIshOf(i))
           THEN Len(buckets') = Len(buckets) + 1
           ELSE buckets' = buckets ]_vars

\* the threshold report as claimed, but for the limit: the entries are the
\* buckets from currentBucketIdx on, one after the other, each with the total
\* of the bucket amounts so far less what was spent of the first, and there
\* are at most 25 of them. (Without scheduled transactions the cursor at
\* pc = "done" is the cursor the report started from.)
ReportShape ==
    /\ Len(thresholds) <= 25
    /\ \A k \in DOMAIN thresholds :
        /\ thresholds[k].bucket = currentBucketIdx + k - 1
        /\ thresholds[k].threshold =
                BucketSum(currentBucketIdx + k) - BucketSum(currentBucketIdx) - bucketSpend

\* C18: the threshold report starts at currentBucketIdx, counts only the
\* unspent part of that first bucket, has at most 25 entries, and has no
\* entry after one whose cumulative total has reached 20,000,000.
C18_ThresholdReport ==
    pc = "done" =>
        /\ ReportShape
        /\ \A k \in DOMAIN thresholds : k > 1 => thresholds[k - 1].threshold < 20000000

\* C18 as the loop has it: an entry follows one whose total is exactly
\* 20,000,000; none follows a total above 20,000,000.
C18_ThresholdReportAbove ==
    pc = "done" =>
        /\ ReportShape
        /\ \A k \in DOMAIN thresholds : k > 1 => thresholds[k - 1].threshold <= 20000000

\* three buckets of 10,000,000, nothing spent: the second entry of the report
\* brings the total to exactly 20,000,000, and a third entry follows
C18_Witness ==
    /\ pc = "done"
    /\ bucketSpend = 0
    /\ currentBucketIdx = 0
    /\ Len(thresholds) = 3
    /\ thresholds[2].threshold = 20000000
    /\ thresholds[3].threshold = 30000000

\* C19: a call of isOutflow on a transaction whose transfer account id is set
\* and is not an account of the budget panics, whatever the account of the
\* transaction, its on-budget status and its amount.
C19_UnresolvedTransferIsFatal ==
    (/\ Len(call.results) >= 1
     /\ call.orig.TransferAccountID.Valid
     /\ call.orig.TransferAccountID.String \notin DOMAIN accountMap)
        => call.results[1].panic

\* the first bucket (from 0) that a total spend of c leaves money in: the
\* least j whose buckets 0..j hold more than c, Len(buckets) when there is none
BucketAfter(c) ==
    IF \E j \in 0..(Len(buckets) - 1) : BucketSum(j + 1) > c
    THEN CHOOSE j \in 0..(Len(buckets) - 1) :
            /\ BucketSum(j + 1) > c
            /\ \A m \in 0..(j - 1) : BucketSum(m + 1) <= c
    ELSE Len(buckets)

\* the cursor is the one that a total spend of c determines
CursorAt(c) ==
    /\ currentBucketIdx = BucketAfter(c)
    /\ bucketSpend = c - BucketSum(BucketAfter(c))

\* C20: the allocator is deterministic. Every cursor state it goes through and
\* every record it emits is a function of the sorted buckets, the sorted
\* spending and the position in spending alone: the cursor is the one
\* determined by the total spent so far, there is one record for each event of
\* a non-zero amount, and its bucket, earned date and age are those determined
\* by the total spent up to and including the event. Two runs on the same
\* sorted sequences therefore agree state by state and record by record.
C20_AllocatorDeterministic ==
    /\ pc = "hist" =>
        /\ CursorAt(SpentSum(i))
        /\ {realized[k].event : k \in DOMAIN realized} =
                {e \in 0..(i - 1) : Spend(e).Amount # 0}
    /\ pc = "histLoop" => CursorAt(SpentSum(i + 1) - amount)
    /\ pc \in {"hist", "histLoop", "done", "panic"} =>
        /\ \A k \in DOMAIN realized :
            LET r == realized[k]
                j == BucketAfter(SpentSum(r.event + 1))
            IN /\ r.bucket = j
               /\ r.earned = Bucket(j).Date
               /\ r.spent = Spend(r.event).Date
               /\ r.ageOfMoney = Spend(r.event).Date - Bucket(j).Date
        /\ \A k \in DOMAIN realized : \A m \in DOMAIN realized :
            k < m => realized[k].event < realized[m].event

\* a completed run of two events: the first, of amount 0, left the cursor
\* where it was and gave no record; the second took 1 of the 2 of the first
\* bucket and was dated by it
C20_Witness ==
    /\ pc = "done"
    /\ Len(spending) = 2
    /\ Len(realized) = 1
    /\ realized[1].event = 1
    /\ realized[1].bucket = 0
    /\ currentBucketIdx = 0
    /\ bucketSpend = 1

\* the buckets have been built
BucketsBuilt == pc \notin {"start", "buckets"}

\* C21: once a bucket has been created its amount is never increased. No step
\* after the bucket builder (the spending filter with the sign flip of
\* isOutflow, the sort, the allocation, the threshold report, the projection)
\* moves or removes a bucket or raises its amount; the allocation loops leave
\* every transaction record as it is and move only the cursor; buckets grows
\* only by one bucket appended at its end by the projection, with scheduled
\* income enabled.
C21_BucketsNeverGrow ==
    [][ BucketsBuilt =>
            /\ Len(buckets') >= Len(buckets)
            /\ \A b \in DOMAIN buckets :
                /\ buckets'[b] = buckets[b]
                /\ heap'[buckets[b]].Amount <= heap[buckets[b]].Amount
            /\ pc \in {"hist", "histLoop", "projLoop"} => heap' = heap
            /\ Len(buckets') > Len(buckets) =>
                /\ pc = "proj"
                /\ includeScheduledIncome
                /\ Len(buckets') = Len(buckets) + 1 ]_vars

\* history flipped the sign of a card payment in place and spent from the one
\* bucket; the projection then appended a bucket for scheduled income and the
\* first bucket still has its amount of 2
C21_Witness ==
    /\ pc \in {"proj", "done"}
    /\ Len(heap) = 3
    /\ heap[2].AccountID = "card"
    /\ heap[2].Amount = -1
    /\ buckets = <<1, 3>>
    /\ heap[1].Amount = 2
    /\ bucketSpend = 1

\* C22: the buckets used for allocation are in non-decreasing order of date:
\* for all bucket indices a < b, the date of bucket a is not after the date of
\* bucket b, whatever the order of the transactions in the input.
C22_BucketsInDateOrder ==
    BucketsBuilt =>
        \A a \in DOMAIN buckets : \A b \in DOMAIN buckets :
            a < b => Bucket(a - 1).Date <= Bucket(b - 1).Date

\* the call of isBlackBox has returned or panicked
BlackBoxCalled == pc = "blackbox" /\ Len(call.results) >= 1

\* C23: Policy B as stated. With account ids that resolve, isBlackBox does not
\* panic; it returns false exactly for a transfer between two accounts that
\* are both cash-backed or both not cash-backed; and it returns true for a
\* transfer of a negative amount from a cash-backed account to a credit card.
C23_SameClassRule ==
    (BlackBoxCalled /\ CallResolves) =>
        /\ ~call.results[1].panic
        /\ call.results[1].ret =
            ~(/\ call.orig.TransferAccountID.Valid
              /\ (CallAccount.Type \in {"checking", "savings", "cash"})
                    = (CallTarget.Type \in {"checking", "savings", "cash"}))
        /\ (/\ CallAccount.Type \in {"checking", "savings", "cash"}
            /\ call.orig.TransferAccountID.Valid
            /\ CallTarget.Type = "creditCard"
            /\ call.orig.Amount < 0) => call.results[1].ret

\* Policy B as the code decides it, by the kind of transaction
PolicyB(a, hasTransfer, t, amt) ==
    IF hasTransfer
    THEN /\ a.Type \in {"checking", "savings", "cash"}
         /\ t.Type = "creditCard"
         /\ amt < 0
    ELSE \/ a.Type \in {"checking", "savings", "cash"}
         \/ ~a.OnBudget
         \/ amt >= 0

\* C23 as the code has it. With account ids that resolve, isBlackBox does not
\* panic and leaves the transaction as it is. Of the transfers it counts only
\* those of a negative amount from a cash-backed account to a credit card; of
\* the other transactions it counts all but the spending (negative amounts)
\* of an on-budget account that is not cash-backed.
C23_PolicyB ==
    (BlackBoxCalled /\ CallResolves) =>
        /\ ~call.results[1].panic
        /\ call.results[1].tx = call.orig
        /\ call.results[1].ret =
            PolicyB(CallAccount, call.orig.TransferAccountID.Valid, CallTarget, call.orig.Amount)

\* a payment of 30000 from checking to the credit card was counted
C23_Witness ==
    /\ BlackBoxCalled
    /\ call.orig = Transaction("checking", TransferTo("card"), -30000, 1)
    /\ call.results[1].ret
    /\ ~call.results[1].panic

\* main has returned, panicked or called log.Fatal
Terminated == pc \in {"done", "panic", "fatal"}

\* C24: the core runs to completion. Every iteration of an inner consumption
\* loop sets the remaining amount to 0 or advances currentBucketIdx (or ends
\* the run on an index out of range), and every run ends: completed, aborted,
\* or after "not earned yet".
C24_RunsToCompletion ==
    /\ [][ (pc \in {"histLoop", "projLoop"} /\ amount > 0 /\ pc' = pc) =>
                \/ amount' = 0
                \/ currentBucketIdx' = currentBucketIdx + 1 ]_vars
    /\ <>Terminated

\* a completed run in which the projection appended a bucket for scheduled
\* income and a later scheduled outflow used up all buckets
C24_Witness ==
    /\ pc = "done"
    /\ includeScheduledIncome
    /\ Len(heap) > Len(txns)
    /\ projected # <<>>
    /\ projected[Len(projected)].kind = "notEarned"
    /\ currentBucketIdx = Len(buckets)

\* the buckets have been built and the spending has been filtered
Classified == pc \in {"sort", "hist", "histLoop", "done", "fatal"}

\* C25: no historical transaction is both a bucket and an outflow: when the
\* bucket builder and the spending filter have run, no transaction record is
\* in buckets and in spending, and none is twice in either.
C25_IncomeXorOutflow ==
    Classified =>
        /\ \A b \in DOMAIN buckets : \A k \in DOMAIN spending : buckets[b] # spending[k]
        /\ \A a \in DOMAIN buckets : \A b \in DOMAIN buckets : buckets[a] = buckets[b] => a = b
        /\ \A a \in DOMAIN spending : \A b \in DOMAIN spending : spending[a] = spending[b] => a = b

\* of a history of an income and a spending transaction in checking, one
\* became the bucket and the other the spending event
C25_Witness ==
    /\ pc = "hist"
    /\ Len(txns) = 2
    /\ heap[1].Amount = 1
    /\ heap[2].Amount = -1
    /\ buckets = <<1>>
    /\ spending = <<2>>

\* the call of NewTransferTransaction or UpdateTransactionToTransfer has returned
TransferReturned == pc = "transfer" /\ call.results # <<>>

C27_PartialConsumption ==
    /\ [](BucketsBuilt /\ currentBucketIdx >= 0 /\ currentBucketIdx < Len(buckets)
            => 0 <= bucketSpend /\ bucketSpend < Bucket(currentBucketIdx).Amount)
    /\ [][ BucketsBuilt /\ pc # "sort" =>
            /\ currentBucketIdx' # currentBucketIdx => bucketSpend' = 0
            /\ (bucketSpend' = 0 /\ bucketSpend # 0) => currentBucketIdx' = currentBucketIdx + 1 ]_vars

\* C28: classification is repeatable. A second call of isOutflow on the same
\* transaction record, with the same account map and scheduled flag, returns
\* what the first call returned and leaves the amount as the first call left it.
C28_Repeatable ==
    (pc = "idle" /\ Len(call.results) >= 2) =>
        /\ call.results[2].panic = call.results[1].panic
        /\ call.results[2].ret = call.results[1].ret
        /\ call.results[2].tx.Amount = call.results[1].tx.Amount

\* what the buckets still hold: the unspent part of the current bucket and the
\* buckets after it
Remaining == TotalBuckets - Consumed

\* C29: a scheduled outflow whose amount is at most what the buckets held when
\* its allocation began is reported with an age and an earned date: "not
\* earned yet" is reported only for an outflow larger than that. (What the
\* buckets held then is what they hold now plus what the outflow has drawn.)
C29_CoveredIsProjected ==
    [][ (/\ pc = "projLoop"
         /\ Len(projected') = Len(projected) + 1
         /\ projected'[Len(projected')].kind = "notEarned")
        => -1 * txnIsh.Amount > Remaining + ((-1 * txnIsh.Amount) - amount) ]_vars

\* C30: every realized-spend record has a non-negative age: the earned date
\* of the bucket it names is not after the date of the spending event.
C30_AgeNonNegative ==
    \A k \in DOMAIN realized :
        /\ realized[k].ageOfMoney >= 0
        /\ realized[k].earned <= realized[k].spent

====
